---- MODULE Spec2Model ----
(***************************************************************************)
(* Model of the datumprikker crate: parse_page (event_overview_page.rs)    *)
(* and download_event (download.rs).                                       *)
(*                                                                         *)
(* The text of a page is represented by the tree the markup parser reads   *)
(* from it (select::document::Document): a sequence of nodes in document   *)
(* order.  Each node has a tag name, the index of its parent (0   *)
(* for a node without a parent element) and its attributes.  A lookup      *)
(* `find(predicate).next()` is the first node, in document order, that     *)
(* satisfies the predicate; `node.find(..)` searches the descendants of    *)
(* the node only.  download_event and the parse_page it calls are run step *)
(* by step: one action per call made.                                      *)
(*                                                                         *)
(* Attribute values are strings, except the class attribute, which is the  *)
(* sequence of its whitespace separated class names, and the two date      *)
(* attributes, which are sequences of characters so that the RFC 3339      *)
(* parser can be modelled on the text itself.                              *)
(***************************************************************************)
EXTENDS Integers, Sequences, FiniteSets, TLC

VARIABLES
    resp,                   \* download_event: let resp, the text of the page (None before)
    pc,                     \* position of the running call
    document,               \* parse_page: let document (<<>> before Document::from)
    canonical_url,          \* the fields of the Event literal, evaluated in order
    title,
    final_date,
    open_registration_link,
    result,                 \* what parse_page returned (<<>> while it runs)
    download_result,        \* what download_event returned (<<>> while it runs)
    steps                   \* history: the calls made so far, in order

vars == <<resp, pc, document, canonical_url, title, final_date,
          open_registration_link, result, download_result, steps>>

----------------------------------------------------------------------------
(* Option and Result values *)

None == << >>
Some(v) == <<v>>
IsSome(o) == o # << >>
Unwrap(o) == o[1]

Ok(v) == [ok |-> TRUE, val |-> v]
Err(e) == [ok |-> FALSE, err |-> e]

\* enum ParsePageError
NonExistingEvent == "NonExistingEvent"
UnexpectedHtml == "UnexpectedHtml"
DateParseError == "DateParseError"
ParsePageError == {NonExistingEvent, UnexpectedHtml, DateParseError}

\* enum DownloadError: NetworkError(reqwest::Error) | ParseError(ParsePageError)
NetworkError == [kind |-> "NetworkError"]
ParseError(e) == [kind |-> "ParseError", source |-> e]

----------------------------------------------------------------------------
(* The bounds of the model *)

\* canonical/other link elements in a page
MaxLinks == 2
\* article elements in a page
MaxArticles == 2
\* elements with id="final_summary" in a page
MaxSummaries == 2
\* date-classified elements outside any final summary
MaxStray == 1

----------------------------------------------------------------------------
(* Documents *)

AttrNames == {"id", "rel", "href", "class", "data-event-title",
              "data-openregistration-link", "data-startdate", "data-enddate"}

NoAttrs == [a \in AttrNames |-> None]
With(attrs, a, v) == [attrs EXCEPT ![a] = Some(v)]
WithOpt(attrs, a, o) == [attrs EXCEPT ![a] = o]

Node(name, parent, attrs) == [name |-> name, parent |-> parent, attrs |-> attrs]

\* Node::attr(name)
attr(node, a) == node.attrs[a]

\* select::predicate::Name(n)
Name(node, n) == node.name = n
\* select::predicate::Attr(a, v)
Attr(node, a, v) == IsSome(attr(node, a)) /\ Unwrap(attr(node, a)) = v
\* select::predicate::Class(c): c is one of the names of the class attribute
Class(node, c) ==
    /\ IsSome(attr(node, "class"))
    /\ \E k \in 1..Len(Unwrap(attr(node, "class"))) : Unwrap(attr(node, "class"))[k] = c

\* Iterator::next() on the matches of a find: the first one in document order
First(hits) ==
    IF hits = {} THEN None
    ELSE Some(CHOOSE i \in hits : \A j \in hits : i <= j)

\* j is a descendant of i
RECURSIVE IsDescendant(_, _, _)
IsDescendant(doc, i, j) ==
    /\ j # 0
    /\ \/ doc[j].parent = i
       \/ IsDescendant(doc, i, doc[j].parent)

\* Node::find searches the descendants of the node
Descendants(doc, i) == {j \in 1..Len(doc) : IsDescendant(doc, i, j)}

----------------------------------------------------------------------------
(* chrono: DateTime::parse_from_rfc3339 and with_timezone(&Utc)            *)
(* A date text is a sequence of characters.  A DateTime is the pair of its *)
(* date and time in UTC (NaiveDateTime) and its offset in seconds.         *)

Digits == {"0", "1", "2", "3", "4", "5", "6", "7", "8", "9"}

DigitValue(c) ==
    CASE c = "0" -> 0 [] c = "1" -> 1 [] c = "2" -> 2 [] c = "3" -> 3
      [] c = "4" -> 4 [] c = "5" -> 5 [] c = "6" -> 6 [] c = "7" -> 7
      [] c = "8" -> 8 [] c = "9" -> 9

\* the decimal number written in text[from..to]
RECURSIVE Number(_, _, _)
Number(text, from, to) ==
    IF to < from THEN 0
    ELSE 10 * Number(text, from, to - 1) + DigitValue(text[to])

AllDigits(text, from, to) == \A k \in from..to : text[k] \in Digits

IsLeapYear(y) == (y % 4 = 0 /\ y % 100 # 0) \/ y % 400 = 0

DaysInMonth(y, m) ==
    IF m = 2 THEN (IF IsLeapYear(y) THEN 29 ELSE 28)
    ELSE IF m \in {4, 6, 9, 11} THEN 30 ELSE 31

NaiveDateTime(y, mo, d, h, mi, s) ==
    [year |-> y, month |-> mo, day |-> d, hour |-> h, minute |-> mi, second |-> s]

\* the calendar day after / before the day of t
NextDay(t) ==
    IF t.day < DaysInMonth(t.year, t.month) THEN [t EXCEPT !.day = t.day + 1]
    ELSE IF t.month < 12 THEN [t EXCEPT !.day = 1, !.month = t.month + 1]
    ELSE [t EXCEPT !.day = 1, !.month = 1, !.year = t.year + 1]

PrevDay(t) ==
    IF t.day > 1 THEN [t EXCEPT !.day = t.day - 1]
    ELSE IF t.month > 1
         THEN [t EXCEPT !.day = DaysInMonth(t.year, t.month - 1), !.month = t.month - 1]
    ELSE [t EXCEPT !.day = 31, !.month = 12, !.year = t.year - 1]

\* faulty variant: the local date and time taken for UTC
SubOffsetIgnored(local, offset) == local

\* local date and time minus the offset (less than a day either way)
SubOffset(local, offset) ==
    LET secs == local.hour * 3600 + local.minute * 60 + local.second - offset
        day  == IF secs < 0 THEN PrevDay(local)
                ELSE IF secs >= 86400 THEN NextDay(local) ELSE local
        sod  == secs % 86400
    IN  [day EXCEPT !.hour = sod \div 3600,
                    !.minute = (sod % 3600) \div 60,
                    !.second = sod % 60]

\* YYYY-MM-DDThh:mm:ss followed by Z or by +hh:mm / -hh:mm
WellFormedRfc3339(text) ==
    /\ Len(text) \in {20, 25}
    /\ AllDigits(text, 1, 4) /\ text[5] = "-"
    /\ AllDigits(text, 6, 7) /\ text[8] = "-"
    /\ AllDigits(text, 9, 10) /\ text[11] = "T"
    /\ AllDigits(text, 12, 13) /\ text[14] = ":"
    /\ AllDigits(text, 15, 16) /\ text[17] = ":"
    /\ AllDigits(text, 18, 19)
    /\ IF Len(text) = 20 THEN text[20] = "Z"
       ELSE /\ text[20] \in {"+", "-"}
            /\ AllDigits(text, 21, 22) /\ text[23] = ":"
            /\ AllDigits(text, 24, 25)

\* DateTime::parse_from_rfc3339(text): Ok(DateTime<FixedOffset>) or Err
parse_from_rfc3339(text) ==
    IF ~WellFormedRfc3339(text) THEN Err("ParseError")
    ELSE
      LET y  == Number(text, 1, 4)
          mo == Number(text, 6, 7)
          d  == Number(text, 9, 10)
          h  == Number(text, 12, 13)
          mi == Number(text, 15, 16)
          s  == Number(text, 18, 19)
          oh == IF Len(text) = 20 THEN 0 ELSE Number(text, 21, 22)
          om == IF Len(text) = 20 THEN 0 ELSE Number(text, 24, 25)
          offset == (IF text[20] = "-" THEN -1 ELSE 1) * (oh * 3600 + om * 60)
      IN  IF /\ mo \in 1..12
             /\ d \in 1..DaysInMonth(y, mo)
             /\ h <= 23 /\ mi <= 59 /\ s <= 59
             /\ oh <= 23 /\ om <= 59
          THEN Ok([datetime |-> SubOffset(NaiveDateTime(y, mo, d, h, mi, s), offset),
                   offset |-> offset])
          ELSE Err("ParseError")

\* DateTime::with_timezone(&Utc): the same instant, offset zero
with_timezone_utc(dt) == [dt EXCEPT !.offset = 0]

----------------------------------------------------------------------------
(* event_overview_page.rs *)

IsHtml(node) == Name(node, "html")
IsCanonicalLink(node) == Name(node, "link") /\ Attr(node, "rel", "canonical")
IsArticle(node) == Name(node, "article")
IsFinalSummary(node) == Attr(node, "id", "final_summary")
IsDate(node) == Class(node, "date")

\* Option::ok_or(UnexpectedHtml) followed by `?` and .attr(a).ok_or(UnexpectedHtml)?
AttrOfFound(doc, found, a) ==
    IF ~IsSome(found) THEN Err(UnexpectedHtml)
    ELSE IF ~IsSome(attr(doc[Unwrap(found)], a)) THEN Err(UnexpectedHtml)
    ELSE Ok(Unwrap(attr(doc[Unwrap(found)], a)))

\* faulty variant: a missing id attribute read as the empty id
parse_page_id_or_default(doc) ==
    LET found == First({i \in 1..Len(doc) : IsHtml(doc[i])})
    IN  IF ~IsSome(found) THEN Err(UnexpectedHtml)
        ELSE IF ~IsSome(attr(doc[Unwrap(found)], "id")) THEN Ok("")
        ELSE Ok(Unwrap(attr(doc[Unwrap(found)], "id")))

parse_page_id(doc) ==
    AttrOfFound(doc, First({i \in 1..Len(doc) : IsHtml(doc[i])}), "id")

parse_canonical_url(doc) ==
    AttrOfFound(doc, First({i \in 1..Len(doc) : IsCanonicalLink(doc[i])}), "href")

\* faulty variant: a missing title attribute read as the empty title
parse_page_title_or_default(doc) ==
    LET found == First({i \in 1..Len(doc) : IsArticle(doc[i])})
    IN  IF ~IsSome(found) THEN Err(UnexpectedHtml)
        ELSE IF ~IsSome(attr(doc[Unwrap(found)], "data-event-title")) THEN Ok("")
        ELSE Ok(Unwrap(attr(doc[Unwrap(found)], "data-event-title")))

\* faulty variant: the last article instead of the first
parse_page_title_of_last(doc) ==
    LET hits == {i \in 1..Len(doc) : IsArticle(doc[i])}
    IN  AttrOfFound(doc, IF hits = {} THEN None
                         ELSE Some(CHOOSE i \in hits : \A j \in hits : i >= j),
                    "data-event-title")

parse_page_title(doc) ==
    AttrOfFound(doc, First({i \in 1..Len(doc) : IsArticle(doc[i])}), "data-event-title")

DateRange(start, end) == [start |-> start, end |-> end]

\* faulty variant: a parse failure of the end text reported as UnexpectedHtml
parse_date_range_end_as_markup(start_text, end_text) ==
    LET start == parse_from_rfc3339(start_text)
        end   == parse_from_rfc3339(end_text)
    IN  IF ~start.ok THEN Err(DateParseError)
        ELSE IF ~end.ok THEN Err(UnexpectedHtml)
        ELSE Ok(Some(DateRange(with_timezone_utc(start.val), with_timezone_utc(end.val))))

\* Ok(Some(DateRange { start: parse(start_text)?.with_timezone(&Utc), end: .. }))
parse_date_range(start_text, end_text) ==
    LET start == parse_from_rfc3339(start_text)
        end   == parse_from_rfc3339(end_text)
    IN  IF ~start.ok THEN Err(DateParseError)
        ELSE IF ~end.ok THEN Err(DateParseError)
        ELSE Ok(Some(DateRange(with_timezone_utc(start.val), with_timezone_utc(end.val))))

\* faulty variant: a final summary without date element read as no final date
parse_page_final_date_lenient(doc) ==
    LET final_summary == First({i \in 1..Len(doc) : IsFinalSummary(doc[i])})
    IN  IF ~IsSome(final_summary) THEN Ok(None)
        ELSE
          LET final_date_node ==
                First({j \in Descendants(doc, Unwrap(final_summary)) : IsDate(doc[j])})
          IN  IF ~IsSome(final_date_node) THEN Ok(None)
              ELSE
                LET start_text == attr(doc[Unwrap(final_date_node)], "data-startdate")
                    end_text   == attr(doc[Unwrap(final_date_node)], "data-enddate")
                IN  IF ~IsSome(start_text) THEN Err(UnexpectedHtml)
                    ELSE IF ~IsSome(end_text) THEN Err(UnexpectedHtml)
                    ELSE parse_date_range(Unwrap(start_text), Unwrap(end_text))

\* faulty variant: the start text parsed before the end attribute is looked up
parse_page_final_date_start_first(doc) ==
    LET final_summary == First({i \in 1..Len(doc) : IsFinalSummary(doc[i])})
    IN  IF ~IsSome(final_summary) THEN Ok(None)
        ELSE
          LET final_date_node ==
                First({j \in Descendants(doc, Unwrap(final_summary)) : IsDate(doc[j])})
          IN  IF ~IsSome(final_date_node) THEN Err(UnexpectedHtml)
              ELSE
                LET start_text == attr(doc[Unwrap(final_date_node)], "data-startdate")
                    end_text   == attr(doc[Unwrap(final_date_node)], "data-enddate")
                IN  IF ~IsSome(start_text) THEN Err(UnexpectedHtml)
                    ELSE IF ~parse_from_rfc3339(Unwrap(start_text)).ok
                         THEN Err(DateParseError)
                    ELSE IF ~IsSome(end_text) THEN Err(UnexpectedHtml)
                    ELSE parse_date_range(Unwrap(start_text), Unwrap(end_text))

parse_page_final_date(doc) ==
    LET final_summary == First({i \in 1..Len(doc) : IsFinalSummary(doc[i])})
    IN  IF ~IsSome(final_summary) THEN Ok(None)
        ELSE
          LET final_date_node ==
                First({j \in Descendants(doc, Unwrap(final_summary)) : IsDate(doc[j])})
          IN  IF ~IsSome(final_date_node) THEN Err(UnexpectedHtml)
              ELSE
                LET start_text == attr(doc[Unwrap(final_date_node)], "data-startdate")
                    end_text   == attr(doc[Unwrap(final_date_node)], "data-enddate")
                IN  IF ~IsSome(start_text) THEN Err(UnexpectedHtml)
                    ELSE IF ~IsSome(end_text) THEN Err(UnexpectedHtml)
                    ELSE parse_date_range(Unwrap(start_text), Unwrap(end_text))

\* faulty variant: a missing attribute read as no link
parse_page_open_registration_link_lenient(doc) ==
    LET link == AttrOfFound(doc, First({i \in 1..Len(doc) : IsArticle(doc[i])}),
                            "data-openregistration-link")
    IN  IF ~link.ok THEN Ok(None)
        ELSE IF link.val = "" THEN Ok(None)
        ELSE Ok(Some(link.val))

\* faulty variant: the empty string is not turned into None
parse_page_open_registration_link_raw(doc) ==
    LET link == AttrOfFound(doc, First({i \in 1..Len(doc) : IsArticle(doc[i])}),
                            "data-openregistration-link")
    IN  IF ~link.ok THEN link
        ELSE Ok(Some(link.val))

parse_page_open_registration_link(doc) ==
    LET link == AttrOfFound(doc, First({i \in 1..Len(doc) : IsArticle(doc[i])}),
                            "data-openregistration-link")
    IN  IF ~link.ok THEN link
        ELSE IF link.val = "" THEN Ok(None)
        ELSE Ok(Some(link.val))

Event(url, t, date, link) ==
    [canonical_url |-> url, title |-> t, final_date |-> date,
     open_registration_link |-> link]

----------------------------------------------------------------------------
(* The pages the calls are run on *)

Block(name, attrs, kids) == [name |-> name, attrs |-> attrs, kids |-> kids]

\* the nodes of a sequence of sibling blocks, in document order; the first
\* gets index base + 1 and every block has parent top
RECURSIVE Flatten(_, _, _)
Flatten(blocks, base, top) ==
    IF blocks = << >> THEN << >>
    ELSE LET b  == Head(blocks)
             me == base + 1
         IN  <<Node(b.name, top, b.attrs)>>
             \o [k \in 1..Len(b.kids) |-> Node(b.kids[k].name, me, b.kids[k].attrs)]
             \o Flatten(Tail(blocks), me + Len(b.kids), top)

\* html: None for a tree without html element, else Some(the id attribute)
Page(html, blocks) ==
    IF ~IsSome(html) THEN Flatten(blocks, 0, 0)
    ELSE <<Node("html", 0, WithOpt(NoAttrs, "id", Unwrap(html)))>> \o Flatten(blocks, 1, 1)

SeqsUpTo(S, n) == UNION {[1..k -> S] : k \in 0..n}

DigitChar(n) ==
    CASE n = 0 -> "0" [] n = 1 -> "1" [] n = 2 -> "2" [] n = 3 -> "3"
      [] n = 4 -> "4" [] n = 5 -> "5" [] n = 6 -> "6" [] n = 7 -> "7"
      [] n = 8 -> "8" [] n = 9 -> "9"

TwoDigits(n) == <<DigitChar((n \div 10) % 10), DigitChar(n % 10)>>

\* the text YYYY-MM-DDThh:mm:ss and its zone: <<"Z">> or <<sign, hours, minutes>>
DateText(y, mo, d, h, mi, s, zone) ==
    TwoDigits(y \div 100) \o TwoDigits(y % 100) \o <<"-">> \o TwoDigits(mo) \o <<"-">>
    \o TwoDigits(d) \o <<"T">> \o TwoDigits(h) \o <<":">> \o TwoDigits(mi) \o <<":">>
    \o TwoDigits(s)
    \o (IF Len(zone) = 1 THEN zone
        ELSE <<zone[1]>> \o TwoDigits(zone[2]) \o <<":">> \o TwoDigits(zone[3]))

\* 2022-06-03T19:00:00+02:00 and 2022-06-03T23:00:00+02:00
FinalStart == DateText(2022, 6, 3, 19, 0, 0, <<"+", 2, 0>>)
FinalEnd == DateText(2022, 6, 3, 23, 0, 0, <<"+", 2, 0>>)
\* not a date at all
Garbage == <<"s", "o", "o", "n">>

\* the root element: none, without id, or with an id
HomeIndex == Some(Some("page_home_index"))
EventPage == Some(Some("page_afspraak_overzicht"))
HtmlChoices == {None, Some(None), HomeIndex, EventPage, Some(Some(""))}

Url1 == "http://datumprikker.nl/afspraak/overzicht/mu2edbyv3bfayubtm"
Url2 == "http://datumprikker.nl/afspraak/overzicht/fewqvuycnmvgnx25"
RegistrationLink == "https://datumprikker.nl/pux6s6a4febgnx25"

CanonicalLink(href) ==
    Block("link", With(WithOpt(NoAttrs, "href", href), "rel", "canonical"), << >>)
StylesheetLink ==
    Block("link", With(With(NoAttrs, "href", "/css/site.css"), "rel", "stylesheet"), << >>)
LinkBlocks == {CanonicalLink(href) : href \in {None, Some(Url1), Some(Url2)}} \cup {StylesheetLink}

Article(t, l) ==
    Block("article", WithOpt(WithOpt(NoAttrs, "data-event-title", t),
                             "data-openregistration-link", l), << >>)
ArticleBlocks ==
    {Article(t, l) : t \in {None, Some("test")}, l \in {None, Some(""), Some(RegistrationLink)}}

DateElement(start, end) ==
    Block("span", WithOpt(WithOpt(With(NoAttrs, "class", <<"date", "large">>),
                                  "data-startdate", start), "data-enddate", end), << >>)
\* a child of a final summary that is not date-classified
Label == Block("span", With(With(NoAttrs, "class", <<"label">>),
                            "data-startdate", FinalStart), << >>)

SummaryBlock(kids) == Block("div", With(NoAttrs, "id", "final_summary"), kids)

BasicDates == {None, Some(Garbage), Some(FinalStart)}
SummaryBlocks ==
    {SummaryBlock(<< >>), SummaryBlock(<<Label>>)}
    \cup {SummaryBlock(<<DateElement(s, e)>>) : s \in BasicDates, e \in BasicDates}

\* date-classified elements outside a final summary
StrayBlocks == {DateElement(Some(FinalEnd), Some(FinalStart))}

PagesOf(htmls, links, articles, strays, summaries) ==
    {Page(h, l \o a \o st \o su) :
        h \in htmls, l \in links, a \in articles, st \in strays, su \in summaries}

Optional(S) == {<< >>} \cup {<<x>> : x \in S}

GoodLink == <<CanonicalLink(Some(Url1))>>
GoodArticle == <<Article(Some("test"), Some(RegistrationLink))>>
GoodSummary == <<SummaryBlock(<<DateElement(Some(FinalStart), Some(FinalEnd))>>)>>

\* every combination of defects, each kind of element present at most once
DefectPages ==
    PagesOf(HtmlChoices, Optional(LinkBlocks), Optional(ArticleBlocks),
            Optional(StrayBlocks), Optional(SummaryBlocks))

\* several link elements
LinkPages ==
    PagesOf({EventPage}, SeqsUpTo(LinkBlocks, MaxLinks), Optional(ArticleBlocks),
            {<< >>}, {<< >>, GoodSummary})

\* several article elements
ArticlePages ==
    PagesOf({EventPage}, {GoodLink}, SeqsUpTo(ArticleBlocks, MaxArticles),
            {<< >>}, {<< >>, GoodSummary})

\* several final summaries, date elements inside and outside them; the root
\* element may itself carry the final-summary id
SummaryVariety ==
    {SummaryBlock(<< >>), SummaryBlock(<<Label>>),
     SummaryBlock(<<Label, DateElement(Some(FinalStart), Some(FinalEnd))>>),
     SummaryBlock(<<DateElement(Some(FinalEnd), Some(FinalEnd)),
                    DateElement(Some(FinalStart), Some(FinalStart))>>),
     SummaryBlock(<<DateElement(None, Some(FinalEnd))>>)}
SummaryPages ==
    PagesOf({EventPage, Some(Some("final_summary"))}, {GoodLink},
            {GoodArticle, <<Article(Some("test"), None)>>},
            SeqsUpTo(StrayBlocks, MaxStray), SeqsUpTo(SummaryVariety, MaxSummaries))

\* date texts: well-formed ones with fields in and out of range, and malformed ones
DateYears == {2023, 2024}
DateDays == {<<1, 1>>, <<2, 28>>, <<2, 29>>, <<3, 1>>, <<6, 31>>, <<12, 31>>, <<13, 1>>, <<0, 10>>}
DateTimes == {<<0, 0, 0>>, <<23, 59, 59>>, <<24, 0, 0>>, <<12, 60, 0>>}
DateZones == {<<"Z">>, <<"+", 2, 0>>, <<"-", 5, 30>>, <<"+", 0, 0>>, <<"-", 23, 59>>,
              <<"+", 24, 0>>}
WellFormedDates ==
    {DateText(y, md[1], md[2], t[1], t[2], t[3], z) :
        y \in DateYears, md \in DateDays, t \in DateTimes, z \in DateZones}
MalformedDates ==
    {Garbage, << >>,
     SubSeq(FinalStart, 1, 19),               \* no zone
     SubSeq(FinalStart, 1, 10),               \* date only
     [FinalStart EXCEPT ![5] = "/", ![8] = "/"],
     [FinalStart EXCEPT ![12] = "x"],
     FinalStart \o <<"Z">>}
RichDates == WellFormedDates \cup MalformedDates
FewDates == {FinalStart, FinalEnd, DateText(2021, 12, 31, 23, 0, 0, <<"-", 3, 0>>), Garbage}

DatePages ==
    PagesOf({EventPage}, {GoodLink}, {GoodArticle, <<Article(Some("test"), None)>>}, {<< >>},
            {<<SummaryBlock(<<DateElement(Some(se[1]), Some(se[2]))>>)>> :
                se \in (RichDates \X FewDates) \cup (FewDates \X RichDates)})

Pages == DefectPages \cup LinkPages \cup ArticlePages \cup SummaryPages \cup DatePages

----------------------------------------------------------------------------
(* The calls *)

\* parse_page returns: download_event goes on with the `?` on its result
Return(r) ==
    /\ result' = Some(r)
    /\ pc' = "parse_returned"

\* let document = Document::from(text); let page_id = parse_page_id(&document)?;
\* if page_id == "page_home_index" { return Err(NonExistingEvent) }
ParsePageId ==
    /\ pc = "parse_page"
    /\ document' = Some(Unwrap(resp))
    /\ steps' = Append(steps, "parse_page_id")
    /\ LET page_id == parse_page_id(Unwrap(resp))
       IN  IF ~page_id.ok THEN Return(page_id)
           ELSE IF page_id.val = "page_home_index" THEN Return(Err(NonExistingEvent))
           ELSE pc' = "canonical_url" /\ UNCHANGED result
    /\ UNCHANGED <<resp, canonical_url, title, final_date, open_registration_link,
                   download_result>>

\* canonical_url: parse_canonical_url(&document)?,
ParseCanonicalUrl ==
    /\ pc = "canonical_url"
    /\ steps' = Append(steps, "parse_canonical_url")
    /\ LET r == parse_canonical_url(Unwrap(document))
       IN  IF ~r.ok THEN Return(r) /\ UNCHANGED canonical_url
           ELSE canonical_url' = Some(r.val) /\ pc' = "title" /\ UNCHANGED result
    /\ UNCHANGED <<resp, document, title, final_date, open_registration_link,
                   download_result>>

\* title: parse_page_title(&document)?,
ParsePageTitle ==
    /\ pc = "title"
    /\ steps' = Append(steps, "parse_page_title")
    /\ LET r == parse_page_title(Unwrap(document))
       IN  IF ~r.ok THEN Return(r) /\ UNCHANGED title
           ELSE title' = Some(r.val) /\ pc' = "final_date" /\ UNCHANGED result
    /\ UNCHANGED <<resp, document, canonical_url, final_date, open_registration_link,
                   download_result>>

\* final_date: parse_page_final_date(&document)?,
ParsePageFinalDate ==
    /\ pc = "final_date"
    /\ steps' = Append(steps, "parse_page_final_date")
    /\ LET r == parse_page_final_date(Unwrap(document))
       IN  IF ~r.ok THEN Return(r) /\ UNCHANGED final_date
           ELSE final_date' = Some(r.val) /\ pc' = "open_registration_link"
                /\ UNCHANGED result
    /\ UNCHANGED <<resp, document, canonical_url, title, open_registration_link,
                   download_result>>

\* open_registration_link: parse_page_open_registration_link(&document)?, and Ok(Event {..})
ParsePageOpenRegistrationLink ==
    /\ pc = "open_registration_link"
    /\ steps' = Append(steps, "parse_page_open_registration_link")
    /\ LET r == parse_page_open_registration_link(Unwrap(document))
       IN  IF ~r.ok THEN Return(r) /\ UNCHANGED open_registration_link
           ELSE /\ open_registration_link' = Some(r.val)
                /\ Return(Ok(Event(Unwrap(canonical_url), Unwrap(title),
                                   Unwrap(final_date), r.val)))
    /\ UNCHANGED <<resp, document, canonical_url, title, final_date, download_result>>

----------------------------------------------------------------------------
(* download.rs *)

\* reqwest::get(url).await?
Get ==
    /\ pc = "get"
    /\ steps' = Append(steps, "get")
    /\ \E ok \in BOOLEAN :
         IF ok THEN pc' = "text" /\ UNCHANGED download_result
         ELSE pc' = "done" /\ download_result' = Some(Err(NetworkError))
    /\ UNCHANGED <<resp, document, canonical_url, title, final_date,
                   open_registration_link, result>>

\* .text().await?
Text ==
    /\ pc = "text"
    /\ steps' = Append(steps, "text")
    /\ \/ \E text \in Pages :
            resp' = Some(text) /\ pc' = "parse_page" /\ UNCHANGED download_result
       \/ pc' = "done" /\ download_result' = Some(Err(NetworkError)) /\ UNCHANGED resp
    /\ UNCHANGED <<document, canonical_url, title, final_date,
                   open_registration_link, result>>

\* faulty variant: every extraction failure reported as the same ParseError
DownloadReturnCollapsed ==
    /\ pc = "parse_returned"
    /\ pc' = "done"
    /\ download_result' =
         Some(IF Unwrap(result).ok THEN Ok(Unwrap(result).val)
              ELSE Err(ParseError(UnexpectedHtml)))
    /\ UNCHANGED <<resp, document, canonical_url, title, final_date,
                   open_registration_link, result, steps>>

\* let event = parse_page(resp.as_str())?; Ok(event)
DownloadReturn ==
    /\ pc = "parse_returned"
    /\ pc' = "done"
    /\ download_result' =
         Some(IF Unwrap(result).ok THEN Ok(Unwrap(result).val)
              ELSE Err(ParseError(Unwrap(result).err)))
    /\ UNCHANGED <<resp, document, canonical_url, title, final_date,
                   open_registration_link, result, steps>>

Next ==
    \/ Get
    \/ Text
    \/ ParsePageId
    \/ ParseCanonicalUrl
    \/ ParsePageTitle
    \/ ParsePageFinalDate
    \/ ParsePageOpenRegistrationLink
    \/ DownloadReturn

Init ==
    /\ pc = "get"
    /\ resp = None
    /\ document = None
    /\ canonical_url = None
    /\ title = None
    /\ final_date = None
    /\ open_registration_link = None
    /\ result = None
    /\ download_result = None
    /\ steps = << >>

Spec == Init /\ [][Next]_vars

----------------------------------------------------------------------------
(* Vocabulary of the properties: what a page contains, stated on the tree  *)
(* itself, independently of the lookups of parse_page.                     *)

Doc == Unwrap(document)
Returned == IsSome(result)
Res == Unwrap(result)
Failed(e) == Returned /\ Res = Err(e)
Succeeded == Returned /\ Res.ok

Lowest(S) == CHOOSE i \in S : \A j \in S : i <= j
Htmls == {i \in 1..Len(Doc) : Doc[i].name = "html"}
CanonicalLinks ==
    {i \in 1..Len(Doc) : Doc[i].name = "link" /\ Doc[i].attrs["rel"] = Some("canonical")}
Articles == {i \in 1..Len(Doc) : Doc[i].name = "article"}
Summaries == {i \in 1..Len(Doc) : Doc[i].attrs["id"] = Some("final_summary")}
DatesIn(i) ==
    {j \in 1..Len(Doc) : /\ IsDescendant(Doc, i, j)
                         /\ Doc[j].attrs["class"] # None
                         /\ \E k \in DOMAIN Doc[j].attrs["class"][1] :
                                Doc[j].attrs["class"][1][k] = "date"}

\* the attribute a of the first element of S, None when S is empty or it has none
FirstAttr(S, a) == IF S = {} THEN None ELSE Doc[Lowest(S)].attrs[a]

RootId == FirstAttr(Htmls, "id")
Href == FirstAttr(CanonicalLinks, "href")
TitleAttr == FirstAttr(Articles, "data-event-title")
LinkAttr == FirstAttr(Articles, "data-openregistration-link")
HasSummary == Summaries # {}
HasDate == HasSummary /\ DatesIn(Lowest(Summaries)) # {}
StartAttr == IF HasDate THEN FirstAttr(DatesIn(Lowest(Summaries)), "data-startdate") ELSE None
EndAttr == IF HasDate THEN FirstAttr(DatesIn(Lowest(Summaries)), "data-enddate") ELSE None

IdAccepted == RootId # None /\ RootId # Some("page_home_index")
ValidDate(o) == o # None /\ parse_from_rfc3339(o[1]).ok
DateStepFine == ~HasSummary \/ (ValidDate(StartAttr) /\ ValidDate(EndAttr))

\* days from 1970-01-01 to the given civil date
DaysFromCivil(y, m, d) ==
    LET yy  == IF m <= 2 THEN y - 1 ELSE y
        era == yy \div 400
        yoe == yy - era * 400
        mp  == IF m > 2 THEN m - 3 ELSE m + 9
        doy == (153 * mp + 2) \div 5 + d - 1
        doe == yoe * 365 + yoe \div 4 - yoe \div 100 + doy
    IN  era * 146097 + doe - 719468

\* seconds since the epoch of a date and time read as UTC
EpochSeconds(t) ==
    DaysFromCivil(t.year, t.month, t.day) * 86400
    + t.hour * 3600 + t.minute * 60 + t.second

\* the absolute instant a valid date text denotes: local time minus offset
TextInstant(text) ==
    LET local == NaiveDateTime(Number(text, 1, 4), Number(text, 6, 7), Number(text, 9, 10),
                               Number(text, 12, 13), Number(text, 15, 16), Number(text, 18, 19))
        offset == IF Len(text) = 20 THEN 0
                  ELSE (IF text[20] = "-" THEN -1 ELSE 1)
                       * (Number(text, 21, 22) * 3600 + Number(text, 24, 25) * 60)
    IN  EpochSeconds(local) - offset

ParseSteps == <<"parse_page_id", "parse_canonical_url", "parse_page_title",
                "parse_page_final_date", "parse_page_open_registration_link">>
AllSteps == <<"get", "text">> \o ParseSteps
LastStep == steps[Len(steps)]

----------------------------------------------------------------------------
(* C1: page-identity check.  Once parse_page has looked at the root        *)
(* element: a missing html element or id attribute gives UnexpectedHtml;   *)
(* the id "page_home_index" gives NonExistingEvent, whatever else the page *)
(* contains or lacks; any other id, the empty one included, is accepted:   *)
(* no result yet and the canonical-URL step is next, and NonExistingEvent  *)
(* is returned for no other page.                                          *)
C1_PageIdentity ==
    IsSome(document) =>
        /\ RootId = None => Failed(UnexpectedHtml) /\ LastStep = "parse_page_id"
        /\ RootId = Some("page_home_index") =>
              Failed(NonExistingEvent) /\ LastStep = "parse_page_id"
        /\ IdAccepted =>
              /\ ~Failed(NonExistingEvent)
              /\ LastStep = "parse_page_id" => ~Returned /\ pc = "canonical_url"
              /\ Returned => Len(steps) > 3

\* the home page without canonical link and without article is reported as non-existing
C1_Witness ==
    /\ Failed(NonExistingEvent)
    /\ CanonicalLinks = {} /\ Articles = {} /\ ~HasSummary

(* C2 as stated: a page with accepted id, canonical link, article with     *)
(* title "test", no final summary and NO open-registration-link attribute  *)
(* is extracted as Ok(Event) with final_date = None and                    *)
(* open_registration_link = None.                                          *)
C2_Original ==
    (/\ Returned /\ IdAccepted /\ Href # None /\ TitleAttr = Some("test")
     /\ ~HasSummary /\ LinkAttr = None)
    => /\ Succeeded
       /\ Res.val.final_date = None
       /\ Res.val.open_registration_link = None

(* C2, amended: on such a page the attribute must be present and empty for *)
(* the result Ok(Event) with final_date = None, open_registration_link =   *)
(* None, title "test" and the canonical link's href; with the attribute    *)
(* missing the result is the UnexpectedHtml error.                         *)
C2_ParticipantEvent ==
    (/\ Returned /\ IdAccepted /\ Href # None /\ TitleAttr = Some("test") /\ ~HasSummary)
    => /\ LinkAttr = Some("") =>
             Res = Ok(Event(Href[1], "test", None, None))
       /\ LinkAttr = None => Failed(UnexpectedHtml)

C2_Witness ==
    /\ Succeeded /\ ~HasSummary /\ LinkAttr = Some("") /\ TitleAttr = Some("test")
    /\ Res.val.open_registration_link = None /\ Res.val.final_date = None

(* C3: whenever parse_page succeeds, the first article carries the         *)
(* open-registration-link attribute, the field is None exactly when the    *)
(* attribute's value is the empty string, and otherwise it is Some of the  *)
(* attribute's value, unchanged.                                           *)
C3_OpenRegistrationLink ==
    Succeeded =>
        /\ LinkAttr # None
        /\ Res.val.open_registration_link = None <=> LinkAttr = Some("")
        /\ LinkAttr # Some("") => Res.val.open_registration_link = LinkAttr

C3_Witness ==
    /\ Succeeded
    /\ LinkAttr = Some(RegistrationLink)
    /\ Res.val.open_registration_link = Some(RegistrationLink)

(* C4: a page that is fine otherwise and has no element with the           *)
(* final-summary id is extracted with final_date = None; a successful      *)
(* extraction has final_date = None only when the page has no such         *)
(* element; and a final summary without date-classified descendant, or     *)
(* whose date element lacks the start or the end attribute, gives          *)
(* UnexpectedHtml once the earlier steps have passed.                      *)
C4_OptionalFinalDate ==
    Returned =>
        /\ (/\ IdAccepted /\ Href # None /\ TitleAttr # None /\ LinkAttr # None
            /\ ~HasSummary)
           => Succeeded /\ Res.val.final_date = None
        /\ (Succeeded /\ Res.val.final_date = None) => ~HasSummary
        /\ (/\ IdAccepted /\ Href # None /\ TitleAttr # None
            /\ HasSummary /\ (~HasDate \/ StartAttr = None \/ EndAttr = None))
           => Failed(UnexpectedHtml) /\ LastStep = "parse_page_final_date"

C4_Witness ==
    /\ Succeeded /\ ~HasSummary /\ Res.val.final_date = None
    /\ Res.val.open_registration_link # None

(* C5: when the identity, canonical-URL and title steps pass and the date  *)
(* element of the final summary carries both date attributes, an invalid   *)
(* date text in the start or in the end attribute gives DateParseError,    *)
(* whether or not the other text is valid and whether or not the           *)
(* open-registration-link attribute is there.                              *)
C5_DateParseError ==
    (/\ Returned /\ IdAccepted /\ Href # None /\ TitleAttr # None
     /\ HasDate /\ StartAttr # None /\ EndAttr # None
     /\ (~ValidDate(StartAttr) \/ ~ValidDate(EndAttr)))
    => Failed(DateParseError)

\* a valid start, an end with day 31 in June, and no registration-link attribute
C5_Witness ==
    /\ Failed(DateParseError)
    /\ ValidDate(StartAttr) /\ EndAttr # None /\ ~ValidDate(EndAttr)
    /\ WellFormedRfc3339(EndAttr[1])
    /\ LinkAttr = None

(* C6: on a page that is extractable otherwise (accepted id, final-date    *)
(* step without error), a missing canonical link, href, article, title or  *)
(* open-registration-link attribute gives UnexpectedHtml; a result is Ok   *)
(* only when every required lookup succeeded, it then holds exactly the    *)
(* values the steps produced, and an error result holds no Event.          *)
C6_RequiredLookups ==
    Returned =>
        /\ (/\ IdAccepted /\ DateStepFine
            /\ (\/ CanonicalLinks = {} \/ Href = None \/ Articles = {}
                \/ TitleAttr = None \/ LinkAttr = None))
           => Failed(UnexpectedHtml)
        /\ Succeeded =>
              /\ IdAccepted /\ Href # None /\ TitleAttr # None /\ LinkAttr # None
              /\ canonical_url = Href /\ title = TitleAttr
              /\ IsSome(final_date) /\ IsSome(open_registration_link)
              /\ Res.val = Event(Href[1], TitleAttr[1], final_date[1],
                                 open_registration_link[1])
        /\ ~Succeeded => DOMAIN Res = {"ok", "err"} /\ Res.err \in ParsePageError

\* only the open-registration-link attribute is missing; the final date is fine
C6_Witness ==
    /\ Failed(UnexpectedHtml)
    /\ IdAccepted /\ Href # None /\ TitleAttr # None
    /\ HasSummary /\ DateStepFine /\ LinkAttr = None
    /\ IsSome(final_date)

\* the fields of t are those of a date and a time of day
IsCivil(t) ==
    /\ t.month \in 1..12 /\ t.day \in 1..DaysInMonth(t.year, t.month)
    /\ t.hour \in 0..23 /\ t.minute \in 0..59 /\ t.second \in 0..59

(* C7: when the final-date step is reached on a page whose date element    *)
(* carries two valid RFC 3339 texts, it yields Some(DateRange) whose start *)
(* and end are UTC date-times (offset zero, fields of a calendar date)     *)
(* denoting the instants of their own texts, local time minus offset, in   *)
(* whatever order the two instants are; and the page is extracted when the *)
(* open-registration-link attribute is there.                              *)
C7_UtcNormalization ==
    (/\ IsSome(document) /\ "parse_page_final_date" \in {steps[k] : k \in DOMAIN steps}
     /\ HasDate /\ ValidDate(StartAttr) /\ ValidDate(EndAttr))
    => /\ IsSome(final_date) /\ IsSome(final_date[1])
       /\ LET range == final_date[1][1]
          IN  /\ range.start.offset = 0 /\ range.end.offset = 0
              /\ IsCivil(range.start.datetime) /\ IsCivil(range.end.datetime)
              /\ EpochSeconds(range.start.datetime) = TextInstant(StartAttr[1])
              /\ EpochSeconds(range.end.datetime) = TextInstant(EndAttr[1])
       /\ (Returned /\ LinkAttr # None) => Succeeded /\ Res.val.final_date = final_date[1]

\* the start is on another day in UTC than in its text, and it is after the end
C7_Witness ==
    /\ Succeeded /\ HasDate
    /\ Res.val.final_date[1].start.datetime.day # Number(StartAttr[1], 9, 10)
    /\ TextInstant(StartAttr[1]) > TextInstant(EndAttr[1])

\* what parse_page returns and the step that decides it, by the first defect in step order
Outcome ==
    IF RootId = None THEN <<Err(UnexpectedHtml), "parse_page_id">>
    ELSE IF RootId = Some("page_home_index") THEN <<Err(NonExistingEvent), "parse_page_id">>
    ELSE IF Href = None THEN <<Err(UnexpectedHtml), "parse_canonical_url">>
    ELSE IF TitleAttr = None THEN <<Err(UnexpectedHtml), "parse_page_title">>
    ELSE IF HasSummary /\ (~HasDate \/ StartAttr = None \/ EndAttr = None)
         THEN <<Err(UnexpectedHtml), "parse_page_final_date">>
    ELSE IF HasSummary /\ (~ValidDate(StartAttr) \/ ~ValidDate(EndAttr))
         THEN <<Err(DateParseError), "parse_page_final_date">>
    ELSE IF LinkAttr = None THEN <<Err(UnexpectedHtml), "parse_page_open_registration_link">>
    ELSE <<Ok(Res.val), "parse_page_open_registration_link">>

(* C8: the calls are made in the fixed order identity, canonical URL,      *)
(* title, final date, open-registration link; parse_page returns the error *)
(* of the earliest failing step, that step is the last one made, and no    *)
(* step is made after the return; in the final-date step a missing date    *)
(* element, start attribute or end attribute is reported before any text   *)
(* is parsed.                                                              *)
C8_FailFastOrder ==
    /\ Len(steps) <= Len(AllSteps)
    /\ \A k \in DOMAIN steps : steps[k] = AllSteps[k]
    /\ Returned =>
          /\ Res = Outcome[1]
          /\ LastStep = Outcome[2]
          /\ pc \in {"parse_returned", "done"}

\* no end attribute, an unparsable start and no open-registration-link attribute
C8_Witness ==
    /\ Failed(UnexpectedHtml) /\ LastStep = "parse_page_final_date"
    /\ HasDate /\ StartAttr = Some(Garbage) /\ EndAttr = None
    /\ LinkAttr = None

Count(seq, x) == Cardinality({k \in DOMAIN seq : seq[k] = x})

(* C9: download_event.  parse_page runs only after the request and the     *)
(* body read succeeded, once, on the text read; a network failure returns  *)
(* NetworkError with no extraction; an extraction failure returns          *)
(* ParseError carrying the same ParsePageError; each call is made at most  *)
(* once; Ok(Event) is returned only when both phases succeeded, with the   *)
(* Event of parse_page.                                                    *)
C9_DownloadEvent ==
    /\ \A x \in {"get", "text", "parse_page_id"} : Count(steps, x) <= 1
    /\ IsSome(document) =>
          /\ Len(steps) >= 3 /\ steps[1] = "get" /\ steps[2] = "text"
          /\ IsSome(resp) /\ document = resp
    /\ IsSome(download_result) =>
          /\ pc = "done"
          /\ download_result[1] = Err(NetworkError) =>
                /\ ~IsSome(document) /\ ~Returned
                /\ Count(steps, "parse_page_id") = 0
          /\ download_result[1] # Err(NetworkError) =>
                /\ Returned /\ IsSome(resp)
                /\ Res.ok => download_result[1] = Ok(Res.val)
                /\ ~Res.ok => download_result[1] = Err(ParseError(Res.err))
    /\ (pc = "done" /\ Returned) => IsSome(download_result)

C9_Witness ==
    /\ pc = "done"
    /\ download_result = Some(Err(ParseError(DateParseError)))

(* C10: each lookup takes the first match in document order.  The          *)
(* canonical URL is the href of the first canonical link; title and        *)
(* open-registration link are those of the first article, and when the     *)
(* first article lacks one of them the result is UnexpectedHtml although a *)
(* later article carries it; the dates are those of the first              *)
(* date-classified descendant of the first final summary, and without such *)
(* a descendant the result is UnexpectedHtml although a date-classified    *)
(* element exists elsewhere.                                               *)
C10_FirstMatch ==
    /\ IsSome(canonical_url) => canonical_url = Doc[Lowest(CanonicalLinks)].attrs["href"]
    /\ IsSome(title) => title = Doc[Lowest(Articles)].attrs["data-event-title"]
    /\ IsSome(open_registration_link) =>
          /\ Doc[Lowest(Articles)].attrs["data-openregistration-link"] # None
          /\ open_registration_link[1] # None =>
                open_registration_link[1] =
                    Doc[Lowest(Articles)].attrs["data-openregistration-link"]
    /\ (IsSome(final_date) /\ IsSome(final_date[1])) =>
          LET d == Doc[Lowest(DatesIn(Lowest(Summaries)))]
          IN  /\ EpochSeconds(final_date[1][1].start.datetime)
                   = TextInstant(d.attrs["data-startdate"][1])
              /\ EpochSeconds(final_date[1][1].end.datetime)
                   = TextInstant(d.attrs["data-enddate"][1])
    /\ (Returned /\ LastStep = "parse_page_title"
        /\ Articles # {} /\ Doc[Lowest(Articles)].attrs["data-event-title"] = None)
          => Failed(UnexpectedHtml)
    /\ (Returned /\ LastStep = "parse_page_open_registration_link"
        /\ Articles # {} /\ Doc[Lowest(Articles)].attrs["data-openregistration-link"] = None)
          => Failed(UnexpectedHtml)
    /\ (Returned /\ LastStep = "parse_page_final_date"
        /\ Summaries # {} /\ DatesIn(Lowest(Summaries)) = {})
          => Failed(UnexpectedHtml)

\* the first article has no title, a later one has
C10_Witness ==
    /\ Failed(UnexpectedHtml) /\ LastStep = "parse_page_title"
    /\ Cardinality(Articles) >= 2
    /\ Doc[Lowest(Articles)].attrs["data-event-title"] = None
    /\ \E i \in Articles : Doc[i].attrs["data-event-title"] # None

====
